---- MODULE Spec2Model ----
(***************************************************************************)
(* Model of umake/ui/cli/__init__.py: the argument resolver                *)
(* (mangle_args_for_default_framework), the version comparator             *)
(* (is_first_version_higher) and the --update pipeline of main().          *)
(***************************************************************************)
EXTENDS Integers, Sequences, FiniteSets, TLC

\* Python's None, for the optional strings of the program.
None == "<None>"

(***************************************************************************)
(* Bounds of the model.                                                    *)
(***************************************************************************)
\* longest argument vector handed to the resolver
MaxArgs == 4
\* progress reports a download sends before it reports its end
MaxProgress == 1
\* invocations of the program with --update, one after the other
MaxRuns == 2

(***************************************************************************)
(* The category registry (BaseCategory.categories): read-only in a run.    *)
(***************************************************************************)
\* BaseCategory.categories.keys()
CategoryNames == {"ide", "web", "java"}

\* BaseCategory.categories[c].frameworks.keys()
FrameworkNames(c) ==
    CASE c = "ide" -> {"atom", "idea", "pycharm"}
      [] c = "web" -> {"firefox-dev"}
      [] c = "java" -> {"openjdk"}
      [] OTHER -> {}

\* BaseCategory.categories[c].default_framework.prog_name, None without default
DefaultFramework(c) ==
    CASE c = "ide" -> "idea"
      [] OTHER -> None

(***************************************************************************)
(* String helpers, computed on the characters as Python computes them.     *)
(***************************************************************************)
\* arg.startswith('-')
StartsWithDash(arg) == Len(arg) >= 1 /\ SubSeq(arg, 1, 1) = "-"

\* mutant: the path separator check is dropped
HasPathSep_Always(arg) == TRUE

\* os.path.sep in arg
HasPathSep(arg) == \E k \in 1..Len(arg) : SubSeq(arg, k, k) = "/"

\* mutant: the membership test of the remove flags forgets the short flag
IsRemoveFlag_LongOnly(arg) == arg = "--remove"

\* arg in ("--remove", "-r")
IsRemoveFlag(arg) == arg \in {"--remove", "-r"}

\* the characters a framework name is made of, in code point order
NameAlphabet == "-abcdefghijklmnopqrstuvwxyz"

\* ord(ch) up to a constant, for the characters of NameAlphabet
Ord(ch) == CHOOSE k \in 1..Len(NameAlphabet) : SubSeq(NameAlphabet, k, k) = ch

\* a < b for two str, as Python compares them: character by character, a
\* strict prefix first
RECURSIVE StrLess(_, _)
StrLess(a, b) ==
    IF Len(b) = 0 THEN FALSE
    ELSE IF Len(a) = 0 THEN TRUE
    ELSE IF Ord(SubSeq(a, 1, 1)) # Ord(SubSeq(b, 1, 1))
         THEN Ord(SubSeq(a, 1, 1)) < Ord(SubSeq(b, 1, 1))
    ELSE StrLess(SubSeq(a, 2, Len(a)), SubSeq(b, 2, Len(b)))

(***************************************************************************)
(* is_first_version_higher                                                 *)
(***************************************************************************)
Digits == {"0", "1", "2", "3", "4", "5", "6", "7", "8", "9"}

DigitValue(ch) ==
    CASE ch = "0" -> 0 [] ch = "1" -> 1 [] ch = "2" -> 2 [] ch = "3" -> 3
      [] ch = "4" -> 4 [] ch = "5" -> 5 [] ch = "6" -> 6 [] ch = "7" -> 7
      [] ch = "8" -> 8 [] ch = "9" -> 9

\* version.split('.'): the segments between the dots, empty ones included
RECURSIVE SplitDots(_)
SplitDots(s) ==
    LET dots == {k \in 1..Len(s) : SubSeq(s, k, k) = "."}
    IN  IF dots = {} THEN <<s>>
        ELSE LET d == CHOOSE k \in dots : \A m \in dots : k <= m
             IN  <<SubSeq(s, 1, d - 1)>> \o SplitDots(SubSeq(s, d + 1, Len(s)))

\* int(seg) raises ValueError: seg is empty or holds a character that is no
\* digit (the segments of the model hold digits and letters only)
IntRaises(seg) ==
    Len(seg) = 0 \/ \E k \in 1..Len(seg) : SubSeq(seg, k, k) \notin Digits

\* int(seg) reading only the last digit
IntOf_LastDigit(seg) ==
    IF Len(seg) = 0 THEN 0 ELSE DigitValue(SubSeq(seg, Len(seg), Len(seg)))

\* int(seg) for a segment of digits
RECURSIVE IntOf(_)
IntOf(seg) ==
    IF Len(seg) = 0 THEN 0
    ELSE 10 * IntOf(SubSeq(seg, 1, Len(seg) - 1))
         + DigitValue(SubSeq(seg, Len(seg), Len(seg)))

\* list(map(int, version.split('.')))
VersionParts(version) ==
    LET segs == SplitDots(version) IN [k \in 1..Len(segs) |-> IntOf(segs[k])]

\* lines 233-238: the zip loop from pair k on, and the length test after it
RECURSIVE HigherFrom(_, _, _)
HigherFrom(v1_parts, v2_parts, k) ==
    IF k > Len(v1_parts) \/ k > Len(v2_parts)
    THEN Len(v1_parts) > Len(v2_parts)
    ELSE IF v1_parts[k] > v2_parts[k] THEN TRUE
    ELSE IF v1_parts[k] < v2_parts[k] THEN FALSE
    ELSE HigherFrom(v1_parts, v2_parts, k + 1)

\* the call raises ValueError (lines 231-232): both versions are given and
\* one has a segment int() refuses
VersionRaises(version1, version2) ==
    /\ version2 # None
    /\ version1 # None
    /\ \E v \in {version1, version2} :
         \E k \in 1..Len(SplitDots(v)) : IntRaises(SplitDots(v)[k])

\* the value the call returns when it does not raise
is_first_version_higher(version1, version2) ==
    IF version2 = None THEN TRUE
    ELSE IF version1 = None THEN FALSE
    ELSE HigherFrom(VersionParts(version1), VersionParts(version2), 1)

(***************************************************************************)
(* State.                                                                  *)
(***************************************************************************)
VARIABLES
    \* mangle_args_for_default_framework: its argument, the position of the
    \* for loop, its locals and its return value
    args, pos, result_args, skip_all, pending_args, category_name,
    framework_completed, args_to_append, mangle_pc, mangled,
    \* the registry and the world around a run of --update: per framework
    \* is_installed and supports_update; the version installed under each
    \* install path; the version the download page offers
    registry, disk, remote,
    \* per framework, the version get_latest_version() returns: None until
    \* store_package_url has stored a package url
    package_version,
    \* main() under args.update: its position and its locals
    update_pc, installed_frameworks, idx, outdated_frameworks,
    fetch_package_url, user_version, latest_version,
    \* the threading.Event objects and the DownloadCenter objects created
    events, downloads,
    \* what the process printed, its exit status (-1 while it has none), the
    \* commands handed to run_command_for_args
    printed, exit_code, commands,
    \* the number of this invocation, and what the previous one read and did
    run, last_run,
    \* a call of is_first_version_higher: the segments its arguments were
    \* written from, the arguments, where the call is, what it returned
    cmp_parts1, cmp_parts2, cmp_version1, cmp_version2, cmp_pc, cmp_result,
    \* main() up to parse_args: sys.argv[1:], the vector handed to the
    \* parser, and where main() is
    argv, arg_to_parse, main_pc,
    \* a call of CliUI._display: its argument, what the request's work will
    \* do at the next pulse, where the call is and what it returned, what was
    \* written to the terminal and to the log, the answers handed to the
    \* request's continuation, the status MainLoop was asked to quit with (-1
    \* while it was not), the delayed displays pending, how each pulse of the
    \* progress bar went
    contentType, work, display_pc, display_result, shown, logged, delivered,
    quit_status, scheduled, pulses

varsR == <<args, pos, result_args, skip_all, pending_args, category_name,
           framework_completed, args_to_append, mangle_pc, mangled>>

varsU == <<registry, disk, remote, package_version, update_pc,
           installed_frameworks, idx, outdated_frameworks, fetch_package_url,
           user_version, latest_version, events, downloads, printed,
           exit_code, commands, run, last_run>>

varsC == <<cmp_parts1, cmp_parts2, cmp_version1, cmp_version2, cmp_pc,
           cmp_result>>

varsM == <<argv, arg_to_parse, main_pc>>

varsD == <<contentType, work, display_pc, display_result, shown, logged,
           delivered, quit_status, scheduled, pulses>>

vars == <<varsR, varsU, varsC, varsM, varsD>>

\* what the resolver leaves alone, and what the update pipeline leaves alone
outsideResolver == <<varsU, varsC, varsM, varsD>>
outsideUpdate == <<varsR, varsC, varsM, varsD>>
outsideCompare == <<varsR, varsU, varsM, varsD>>
outsideDisplay == <<varsR, varsU, varsC, varsM>>

(***************************************************************************)
(* The frameworks of the registry and their versions.                      *)
(***************************************************************************)
\* the frameworks in the order list_frameworks() gives them: category by
\* category, not sorted by name
RegistryOrder == <<"pycharm", "idea", "atom", "openjdk", "firefox-dev">>

Frameworks == {RegistryOrder[k] : k \in 1..Len(RegistryOrder)}

\* category['category_name'] of the category that lists the framework
CategoryOf(name) == CHOOSE c \in CategoryNames : name \in FrameworkNames(c)

\* framework['install_path']
InstallPath(name) == "/opt/" \o name

InstallPaths == {InstallPath(n) : n \in Frameworks}

\* the frameworks whose attributes and versions vary from run to run of the
\* model; the others are installed, support updates and are outdated
VariedFrameworks == {"pycharm", "atom"}

\* what get_current_user_version can find under an install path
UserVersions == {None, "1.9", "1.10"}

\* what a download page can offer
RemoteVersions == {"1.9", "1.10", "1.10.0"}

\* the state of the resolver's variables while main() runs --update
ResolverIdle ==
    /\ args = <<>>
    /\ pos = 1
    /\ result_args = <<>>
    /\ skip_all = FALSE
    /\ pending_args = <<>>
    /\ category_name = None
    /\ framework_completed = FALSE
    /\ args_to_append = <<>>
    /\ mangle_pc = "idle"
    /\ mangled = <<>>

\* no call of the comparator is modelled
CompareIdle ==
    /\ cmp_parts1 = <<>>
    /\ cmp_parts2 = <<>>
    /\ cmp_version1 = None
    /\ cmp_version2 = None
    /\ cmp_pc = "idle"
    /\ cmp_result = FALSE

\* a request of no kind, before any call of _display
NoRequest ==
    [kind |-> None, content |-> None, default_input |-> None, input |-> None,
     prompt |-> None, text |-> None, choices |-> {}, bar |-> None]

\* no call of _display is modelled
DisplayIdle ==
    /\ contentType = NoRequest
    /\ work = "running"
    /\ display_pc = "idle"
    /\ display_result = None
    /\ shown = <<>>
    /\ logged = <<>>
    /\ delivered = <<>>
    /\ quit_status = 0 - 1
    /\ scheduled = 0
    /\ pulses = <<>>

\* the start of main() is not modelled
MainIdle ==
    /\ argv = <<>>
    /\ arg_to_parse = <<>>
    /\ main_pc = "idle"

\* a process that has created nothing yet
NoRun == [package_version |-> [n \in Frameworks |-> None],
          printed |-> <<>>, exit_code |-> -1, commands |-> <<>>]

\* the state of the pipeline's variables while the resolver runs
UpdateIdle ==
    /\ registry = [n \in Frameworks |-> [is_installed |-> FALSE, supports_update |-> FALSE]]
    /\ disk = [q \in InstallPaths |-> None]
    /\ remote = [n \in Frameworks |-> "1.9"]
    /\ package_version = [n \in Frameworks |-> None]
    /\ update_pc = "idle"
    /\ installed_frameworks = <<>>
    /\ idx = 1
    /\ outdated_frameworks = <<>>
    /\ fetch_package_url = 0
    /\ user_version = None
    /\ latest_version = None
    /\ events = <<>>
    /\ downloads = <<>>
    /\ printed = <<>>
    /\ exit_code = -1
    /\ commands = <<>>
    /\ run = 1
    /\ last_run = NoRun

\* the tokens the argument vectors are drawn from
Tokens == {"--remove", "-r", "-v", "ide", "web", "idea", "pycharm", "typo", "/opt/x"}

\* all vectors over S of length at most n
SeqsUpTo(S, n) == UNION {[1..k -> S] : k \in 0..n}

(***************************************************************************)
(* mangle_args_for_default_framework                                       *)
(***************************************************************************)
MangleInit ==
    /\ args \in SeqsUpTo(Tokens, MaxArgs)
    /\ pos = 1
    /\ result_args = <<>>
    /\ skip_all = FALSE
    /\ pending_args = <<>>
    /\ category_name = None
    /\ framework_completed = FALSE
    /\ args_to_append = <<>>
    /\ mangle_pc = "loop"
    /\ mangled = <<>>
    /\ UpdateIdle
    /\ CompareIdle
    /\ MainIdle
    /\ DisplayIdle

\* the for loop is at an element
InLoop == mangle_pc = "loop" /\ pos <= Len(args)

\* the non-option branch of the loop body is entered
Positional(arg) == ~StartsWithDash(arg) /\ ~skip_all

\* mutant: the deferral forgets to test that no category is set yet
Deferred_AnyPosition(arg) == IsRemoveFlag(arg)

\* line 120: not category_name and arg in ("--remove", "-r")
Deferred(arg) == category_name = None /\ IsRemoveFlag(arg)

\* lines 120-122: a remove flag before the category is set aside
DeferRemove ==
    /\ InLoop
    /\ Deferred(args[pos])
    /\ args_to_append' = Append(args_to_append, args[pos])
    /\ pos' = pos + 1
    /\ UNCHANGED outsideResolver
    /\ UNCHANGED <<args, result_args, skip_all, pending_args, category_name,
                   framework_completed, mangle_pc, mangled>>

\* lines 124-131: the first positional token is a category
CommitCategory ==
    /\ InLoop
    /\ ~Deferred(args[pos])
    /\ Positional(args[pos])
    /\ category_name = None
    /\ args[pos] \in CategoryNames
    /\ category_name' = args[pos]
    /\ result_args' = Append(result_args \o pending_args, args[pos])
    /\ pending_args' = <<>>
    /\ pos' = pos + 1
    /\ UNCHANGED outsideResolver
    /\ UNCHANGED <<args, skip_all, framework_completed, args_to_append,
                   mangle_pc, mangled>>

\* lines 132-133, 150: the first positional token is no category
UnknownFirstToken ==
    /\ InLoop
    /\ ~Deferred(args[pos])
    /\ Positional(args[pos])
    /\ category_name = None
    /\ args[pos] \notin CategoryNames
    /\ skip_all' = TRUE
    /\ pending_args' = Append(pending_args, args[pos])
    /\ pos' = pos + 1
    /\ UNCHANGED outsideResolver
    /\ UNCHANGED <<args, result_args, category_name, framework_completed,
                   args_to_append, mangle_pc, mangled>>

\* lines 137-139 without the continue: the framework name also falls through
\* to the tokens kept for later
KnownFramework_Duplicates ==
    /\ InLoop
    /\ Positional(args[pos])
    /\ category_name # None /\ ~framework_completed
    /\ args[pos] \in FrameworkNames(category_name)
    /\ framework_completed' = TRUE
    /\ result_args' = Append(result_args, args[pos])
    /\ pending_args' = Append(pending_args, args[pos])
    /\ pos' = pos + 1
    /\ UNCHANGED outsideResolver
    /\ UNCHANGED <<args, skip_all, category_name, args_to_append, mangle_pc,
                   mangled>>

\* lines 134-139: the first positional token after the category is one of
\* its frameworks
KnownFramework ==
    /\ InLoop
    /\ Positional(args[pos])
    /\ category_name # None /\ ~framework_completed
    /\ args[pos] \in FrameworkNames(category_name)
    /\ framework_completed' = TRUE
    /\ result_args' = Append(result_args, args[pos])
    /\ pos' = pos + 1
    /\ UNCHANGED outsideResolver
    /\ UNCHANGED <<args, skip_all, pending_args, category_name,
                   args_to_append, mangle_pc, mangled>>

\* lines 141-147, 150: it is not, and the category has a default
TakeDefaultFramework ==
    /\ InLoop
    /\ Positional(args[pos])
    /\ category_name # None /\ ~framework_completed
    /\ args[pos] \notin FrameworkNames(category_name)
    /\ DefaultFramework(category_name) # None
    /\ framework_completed' = TRUE
    /\ result_args' = IF HasPathSep(args[pos])
                      THEN Append(result_args, DefaultFramework(category_name))
                      ELSE result_args
    /\ pending_args' = Append(pending_args, args[pos])
    /\ pos' = pos + 1
    /\ UNCHANGED outsideResolver
    /\ UNCHANGED <<args, skip_all, category_name, args_to_append,
                   mangle_pc, mangled>>

\* lines 148-150: it is not, and the category has no default
NoDefaultFramework ==
    /\ InLoop
    /\ Positional(args[pos])
    /\ category_name # None /\ ~framework_completed
    /\ args[pos] \notin FrameworkNames(category_name)
    /\ DefaultFramework(category_name) = None
    /\ framework_completed' = TRUE
    /\ skip_all' = TRUE
    /\ pending_args' = Append(pending_args, args[pos])
    /\ pos' = pos + 1
    /\ UNCHANGED outsideResolver
    /\ UNCHANGED <<args, result_args, category_name, args_to_append,
                   mangle_pc, mangled>>

\* line 150 alone: an option, or a token after skip_all or after the
\* framework position
PassThrough ==
    /\ InLoop
    /\ ~Deferred(args[pos])
    /\ \/ ~Positional(args[pos])
       \/ category_name # None /\ framework_completed
    /\ pending_args' = Append(pending_args, args[pos])
    /\ pos' = pos + 1
    /\ UNCHANGED outsideResolver
    /\ UNCHANGED <<args, result_args, skip_all, category_name,
                   framework_completed, args_to_append, mangle_pc, mangled>>

\* mutant: the pending tokens are filed before the default is appended
FinishMangle_DefaultLast ==
    /\ mangle_pc = "loop" /\ pos > Len(args)
    /\ LET withDefault ==
               IF /\ category_name # None
                  /\ ~framework_completed
                  /\ DefaultFramework(category_name) # None
               THEN Append(result_args \o pending_args, DefaultFramework(category_name))
               ELSE result_args \o pending_args
       IN  /\ result_args' = withDefault \o args_to_append
           /\ mangled' = withDefault \o args_to_append
    /\ mangle_pc' = "done"
    /\ UNCHANGED outsideResolver
    /\ UNCHANGED <<args, pos, skip_all, pending_args, category_name,
                   framework_completed, args_to_append>>

\* mutant: the deferred flags are filed before the pending tokens
FinishMangle_DeferredFirst ==
    /\ mangle_pc = "loop" /\ pos > Len(args)
    /\ LET withDefault ==
               IF /\ category_name # None
                  /\ ~framework_completed
                  /\ DefaultFramework(category_name) # None
               THEN Append(result_args, DefaultFramework(category_name))
               ELSE result_args
       IN  /\ result_args' = withDefault \o args_to_append \o pending_args
           /\ mangled' = withDefault \o args_to_append \o pending_args
    /\ mangle_pc' = "done"
    /\ UNCHANGED outsideResolver
    /\ UNCHANGED <<args, pos, skip_all, pending_args, category_name,
                   framework_completed, args_to_append>>

\* lines 152-160: after the loop
FinishMangle ==
    /\ mangle_pc = "loop" /\ pos > Len(args)
    /\ LET withDefault ==
               IF /\ category_name # None
                  /\ ~framework_completed
                  /\ DefaultFramework(category_name) # None
               THEN Append(result_args, DefaultFramework(category_name))
               ELSE result_args
       IN  /\ result_args' = withDefault \o pending_args \o args_to_append
           /\ mangled' = withDefault \o pending_args \o args_to_append
    /\ mangle_pc' = "done"
    /\ UNCHANGED outsideResolver
    /\ UNCHANGED <<args, pos, skip_all, pending_args, category_name,
                   framework_completed, args_to_append>>

MangleNext ==
    \/ DeferRemove
    \/ CommitCategory
    \/ UnknownFirstToken
    \/ KnownFramework
    \/ TakeDefaultFramework
    \/ NoDefaultFramework
    \/ PassThrough
    \/ FinishMangle

SpecResolver == MangleInit /\ [][MangleNext]_vars

(***************************************************************************)
(* main() under args.update (lines 295-340), the report callback handed to *)
(* DownloadCenter, and the download service that calls it.                 *)
(***************************************************************************)
UpdateInitOver(userVersions, remoteVersions) ==
    /\ ResolverIdle
    /\ CompareIdle
    /\ MainIdle
    /\ DisplayIdle
    /\ registry \in [Frameworks -> [is_installed : BOOLEAN, supports_update : BOOLEAN]]
    /\ \A n \in Frameworks \ VariedFrameworks :
         registry[n] = [is_installed |-> n # "idea", supports_update |-> TRUE]
    /\ disk \in [InstallPaths -> userVersions]
    /\ remote \in [Frameworks -> remoteVersions]
    /\ \A n \in Frameworks \ VariedFrameworks :
         disk[InstallPath(n)] = "1.9" /\ remote[n] = "1.10"
    /\ package_version = [n \in Frameworks |-> None]
    /\ update_pc = "start"
    /\ installed_frameworks = <<>>
    /\ idx = 1
    /\ outdated_frameworks = <<>>
    /\ fetch_package_url = 0
    /\ user_version = None
    /\ latest_version = None
    /\ events = <<>>
    /\ downloads = <<>>
    /\ printed = <<>>
    /\ exit_code = -1
    /\ commands = <<>>
    /\ run = 1
    /\ last_run = NoRun

\* the state main() starts in under --update, with well-formed versions
UpdateInit == UpdateInitOver(UserVersions, RemoteVersions)

\* sorted(..., key=lambda x: x['framework_name']): by str order of the names
\* and stable, so the element at k goes behind those with a smaller name and
\* those with an equal name that stand before it
SortByName(seq) ==
    LET Before(j, k) ==
            \/ StrLess(seq[j].framework_name, seq[k].framework_name)
            \/ /\ ~StrLess(seq[k].framework_name, seq[j].framework_name)
               /\ j < k
        Place(k) == Cardinality({j \in 1..Len(seq) : Before(j, k)}) + 1
    IN  [p \in 1..Len(seq) |-> seq[CHOOSE k \in 1..Len(seq) : Place(k) = p]]

\* lines 297-302: the installed frameworks, in the registry's order
InstalledInRegistryOrder ==
    LET Installed(n) == registry[n].is_installed
        names == SelectSeq(RegistryOrder, Installed)
    IN  [k \in 1..Len(names) |->
           [framework_name |-> names[k],
            install_path |-> InstallPath(names[k]),
            category_name |-> CategoryOf(names[k])]]

\* lines 296-304
StartUpdate ==
    /\ update_pc = "start"
    /\ installed_frameworks' = SortByName(InstalledInRegistryOrder)
    /\ outdated_frameworks' = <<>>
    /\ idx' = 1
    /\ update_pc' = "loop"
    /\ UNCHANGED outsideUpdate
    /\ UNCHANGED <<registry, disk, remote, package_version, fetch_package_url,
                   user_version, latest_version, events, downloads, printed,
                   exit_code, commands, run, last_run>>

\* the for loop of line 305 is at an element
AtFramework == update_pc = "loop" /\ idx <= Len(installed_frameworks)

\* line 308
\* line 308 without the firefox-dev test
Excluded_JavaOnly(f) == f.category_name = "java"

Excluded(f) == f.category_name = "java" \/ f.framework_name = "firefox-dev"

\* lines 308-309, and line 312 when the framework has no update support
SkipFramework ==
    /\ AtFramework
    /\ \/ Excluded(installed_frameworks[idx])
       \/ ~registry[installed_frameworks[idx].framework_name].supports_update
    /\ idx' = idx + 1
    /\ UNCHANGED outsideUpdate
    /\ UNCHANGED <<registry, disk, remote, package_version, update_pc,
                   installed_frameworks, outdated_frameworks, fetch_package_url,
                   user_version, latest_version, events, downloads, printed,
                   exit_code, commands, run, last_run>>

\* lines 313-316: a new Event bound to fetch_package_url, a new
\* DownloadCenter started on the framework's download page
TriggerFetch ==
    /\ AtFramework
    /\ ~Excluded(installed_frameworks[idx])
    /\ registry[installed_frameworks[idx].framework_name].supports_update
    /\ events' = Append(events, [flag |-> FALSE, sets |-> 0])
    /\ fetch_package_url' = Len(events) + 1
    /\ downloads' = Append(downloads,
                           [framework |-> installed_frameworks[idx].framework_name,
                            state |-> "running", progress |-> 0, ok |-> FALSE])
    /\ update_pc' = "wait"
    /\ UNCHANGED outsideUpdate
    /\ UNCHANGED <<registry, disk, remote, package_version,
                   installed_frameworks, idx, outdated_frameworks,
                   user_version, latest_version, printed, exit_code, commands,
                   run, last_run>>

\* mutant: the callback sets the event on every report
ReportSetsEvent_Always(arg) == TRUE

\* line 316: the condition of the lambda
ReportSetsEvent(arg) == arg = "all downloads finished"

\* line 316: the lambda, called with arg; it sets the Event that
\* fetch_package_url is bound to when it is called
report(arg) ==
    IF ReportSetsEvent(arg)
    THEN [events EXCEPT ![fetch_package_url] =
             [flag |-> TRUE, sets |-> @.sets + 1]]
    ELSE events

\* the download service reports progress on a running download
DownloadProgress ==
    \E d \in 1..Len(downloads) :
        /\ downloads[d].state = "running"
        /\ downloads[d].progress < MaxProgress
        /\ downloads' = [downloads EXCEPT ![d].progress = @ + 1]
        /\ events' = report("progress")
        /\ UNCHANGED outsideUpdate
        /\ UNCHANGED <<registry, disk, remote, package_version, update_pc,
                       installed_frameworks, idx, outdated_frameworks,
                       fetch_package_url, user_version, latest_version,
                       printed, exit_code, commands, run, last_run>>

\* the download service ends a running download, with or without the page:
\* store_package_url stores what it got, then the end is reported, once
DownloadFinished ==
    \E d \in 1..Len(downloads), ok \in BOOLEAN :
        /\ downloads[d].state = "running"
        /\ downloads' = [downloads EXCEPT ![d].state = "done", ![d].ok = ok]
        /\ package_version' =
               [package_version EXCEPT ![downloads[d].framework] =
                    IF ok THEN remote[downloads[d].framework] ELSE @]
        /\ events' = report("all downloads finished")
        /\ UNCHANGED outsideUpdate
        /\ UNCHANGED <<registry, disk, remote, update_pc,
                       installed_frameworks, idx, outdated_frameworks,
                       fetch_package_url, user_version, latest_version,
                       printed, exit_code, commands, run, last_run>>

\* mutant: the wait is left out
WaitOver_NoWait == TRUE

\* line 317: Event.wait() returns once the flag is set
WaitOver == events[fetch_package_url].flag

\* line 317
WaitReturns ==
    /\ update_pc = "wait"
    /\ WaitOver
    /\ update_pc' = "read"
    /\ UNCHANGED outsideUpdate
    /\ UNCHANGED <<registry, disk, remote, package_version,
                   installed_frameworks, idx, outdated_frameworks,
                   fetch_package_url, user_version, latest_version, events,
                   downloads, printed, exit_code, commands, run, last_run>>

\* lines 318-319
ReadVersions ==
    /\ update_pc = "read"
    /\ user_version' = disk[installed_frameworks[idx].install_path]
    /\ latest_version' = package_version[installed_frameworks[idx].framework_name]
    /\ update_pc' = "compare"
    /\ UNCHANGED outsideUpdate
    /\ UNCHANGED <<registry, disk, remote, package_version,
                   installed_frameworks, idx, outdated_frameworks,
                   fetch_package_url, events, downloads, printed, exit_code,
                   commands, run, last_run>>

\* mutant: the None test is left out
IsOutdated_NoNoneTest(latest, user) == is_first_version_higher(latest, user)

\* lines 320-321
IsOutdated(latest, user) ==
    IF latest # None /\ user # None
    THEN is_first_version_higher(latest, user)
    ELSE FALSE

\* lines 320-329; a ValueError of the comparator ends main()
CompareVersions ==
    /\ update_pc = "compare"
    /\ IF latest_version # None /\ user_version # None
          /\ VersionRaises(latest_version, user_version)
       THEN /\ update_pc' = "crashed"
            /\ exit_code' = 1
            /\ UNCHANGED <<idx, outdated_frameworks>>
       ELSE /\ outdated_frameworks' =
                  IF IsOutdated(latest_version, user_version)
                  THEN Append(outdated_frameworks,
                              [framework_name |-> installed_frameworks[idx].framework_name,
                               category_name |-> installed_frameworks[idx].category_name,
                               user_version |-> user_version,
                               latest_version |-> latest_version,
                               is_outdated |-> TRUE])
                  ELSE outdated_frameworks
            /\ idx' = idx + 1
            /\ update_pc' = "loop"
            /\ UNCHANGED exit_code
    /\ UNCHANGED outsideUpdate
    /\ UNCHANGED <<registry, disk, remote, package_version,
                   installed_frameworks, fetch_package_url, user_version,
                   latest_version, events, downloads, printed, commands, run,
                   last_run>>

\* the for loop of line 305 is over
LoopOver == update_pc = "loop" /\ idx > Len(installed_frameworks)

\* mutant: the install command is run although nothing is outdated
ReportUpToDate_Installs ==
    /\ LoopOver
    /\ Len(outdated_frameworks) = 0
    /\ printed' = Append(printed, [text |-> "All packages are up-to-date."])
    /\ commands' = Append(commands, <<"ide", "idea">>)
    /\ exit_code' = 0
    /\ update_pc' = "exited"
    /\ UNCHANGED outsideUpdate
    /\ UNCHANGED <<registry, disk, remote, package_version,
                   installed_frameworks, idx, outdated_frameworks,
                   fetch_package_url, user_version, latest_version, events,
                   downloads, run, last_run>>

\* lines 330-332
ReportUpToDate ==
    /\ LoopOver
    /\ Len(outdated_frameworks) = 0
    /\ printed' = Append(printed, [text |-> "All packages are up-to-date."])
    /\ exit_code' = 0
    /\ update_pc' = "exited"
    /\ UNCHANGED outsideUpdate
    /\ UNCHANGED <<registry, disk, remote, package_version,
                   installed_frameworks, idx, outdated_frameworks,
                   fetch_package_url, user_version, latest_version, events,
                   downloads, commands, run, last_run>>

\* pretty_print_versions (lines 241-269): one line per item, in order
ReportLines(data) ==
    [k \in 1..Len(data) |->
       [text |-> data[k].framework_name \o " | Latest Version: "
                 \o data[k].latest_version \o " | User Version: "
                 \o data[k].user_version \o " +"]]

\* mutant: the return of line 339 is left out
ReportAndInstall_All ==
    /\ LoopOver
    /\ Len(outdated_frameworks) # 0
    /\ printed' = printed \o ReportLines(outdated_frameworks)
    /\ commands' = commands \o
           [k \in 1..Len(outdated_frameworks) |->
              <<outdated_frameworks[k].category_name,
                outdated_frameworks[k].framework_name>>]
    /\ update_pc' = "returned"
    /\ UNCHANGED outsideUpdate
    /\ UNCHANGED <<registry, disk, remote, package_version,
                   installed_frameworks, idx, outdated_frameworks,
                   fetch_package_url, user_version, latest_version, events,
                   downloads, exit_code, run, last_run>>

\* lines 333-339: the report, then the command of the first item and return
ReportAndInstall ==
    /\ LoopOver
    /\ Len(outdated_frameworks) # 0
    /\ printed' = printed \o ReportLines(outdated_frameworks)
    /\ commands' = Append(commands,
                          <<outdated_frameworks[1].category_name,
                            outdated_frameworks[1].framework_name>>)
    /\ update_pc' = "returned"
    /\ UNCHANGED outsideUpdate
    /\ UNCHANGED <<registry, disk, remote, package_version,
                   installed_frameworks, idx, outdated_frameworks,
                   fetch_package_url, user_version, latest_version, events,
                   downloads, exit_code, run, last_run>>

\* main() is over: it exited, returned, or ended on an exception
Ended == update_pc \in {"exited", "returned", "crashed"}

\* the program is invoked with --update again: a new process, the same
\* registry, install paths and download pages
NewInvocation ==
    /\ Ended
    /\ run < MaxRuns
    /\ run' = run + 1
    /\ last_run' = [package_version |-> package_version, printed |-> printed,
                    exit_code |-> exit_code, commands |-> commands]
    /\ package_version' = [n \in Frameworks |-> None]
    /\ update_pc' = "start"
    /\ installed_frameworks' = <<>>
    /\ idx' = 1
    /\ outdated_frameworks' = <<>>
    /\ fetch_package_url' = 0
    /\ user_version' = None
    /\ latest_version' = None
    /\ events' = <<>>
    /\ downloads' = <<>>
    /\ printed' = <<>>
    /\ exit_code' = -1
    /\ commands' = <<>>
    /\ UNCHANGED outsideUpdate
    /\ UNCHANGED <<registry, disk, remote>>

\* the steps of the thread that runs main()
MainThread ==
    \/ StartUpdate
    \/ SkipFramework
    \/ TriggerFetch
    \/ WaitReturns
    \/ ReadVersions
    \/ CompareVersions
    \/ ReportUpToDate
    \/ ReportAndInstall

UpdateNext ==
    \/ MainThread
    \/ DownloadProgress
    \/ DownloadFinished
    \/ NewInvocation

SpecUpdate == UpdateInit /\ [][UpdateNext]_vars

\* the runs in which every framework that varies supports updates and has
\* version 1.9 installed
FairUpdateInit ==
    /\ UpdateInit
    /\ \A n \in VariedFrameworks :
         /\ registry[n].supports_update
         /\ disk[InstallPath(n)] = "1.9"
         /\ remote[n] \in {"1.9", "1.10"}

\* the thread of main() runs whenever it is not blocked in wait(), and the
\* download service ends every download it was handed
FairSpecUpdate ==
    /\ FairUpdateInit
    /\ [][UpdateNext]_vars
    /\ WF_vars(MainThread)
    /\ WF_vars(DownloadFinished)

(***************************************************************************)
(* Properties of the update pipeline.                                      *)
(***************************************************************************)
\* the framework the for loop of the pipeline is at
CurrentName == installed_frameworks[idx].framework_name

\* C1: the versions of a framework are read only once the Event of its fetch
\* has been set by the end report of that fetch: past the wait, the download
\* started for the framework is over and its Event is set.
C1_VersionsReadAfterSignal ==
    update_pc \in {"read", "compare"}
      => /\ fetch_package_url = Len(events)
         /\ Len(downloads) = Len(events)
         /\ downloads[fetch_package_url].framework = CurrentName
         /\ downloads[fetch_package_url].state = "done"
         /\ events[fetch_package_url].flag
         /\ events[fetch_package_url].sets >= 1

\* C1 witness: versions read after a download that reported progress and
\* then its end, with the page
C1_Witness ==
    /\ update_pc = "compare"
    /\ downloads[fetch_package_url].progress >= 1
    /\ downloads[fetch_package_url].ok
    /\ latest_version # None

\* C2: the Event of every fetch is set at most once, and exactly once when
\* the download is over, with or without the page; and when every download
\* handed to the service ends, a pipeline that waits reaches its report.
C2_SignalSetOnceAndReportReached ==
    /\ [](\A e \in 1..Len(events) :
            /\ events[e].sets <= 1
            /\ events[e].flag <=> events[e].sets = 1
            /\ downloads[e].state = "done" => events[e].sets = 1)
    /\ (update_pc = "wait") ~> (Ended /\ printed # <<>>)

\* C2 witness: the report reached after a download that ended without the
\* page, its Event set once
C2_Witness ==
    /\ Ended
    /\ printed # <<>>
    /\ \E d \in 1..Len(downloads) :
         /\ downloads[d].state = "done"
         /\ ~downloads[d].ok
         /\ events[d].sets = 1

\* the place of a framework name in ascending name order
NameRank(name) ==
    CASE name = "atom" -> 1
      [] name = "firefox-dev" -> 2
      [] name = "idea" -> 3
      [] name = "openjdk" -> 4
      [] name = "pycharm" -> 5

\* C3: with at least one outdated framework, the install command is run
\* exactly once, for the first row of the report, which is the outdated
\* framework first in ascending name order; no other command is run.
C3_InstallFirstOutdatedOnce ==
    /\ Len(commands) <= 1
    /\ (Ended /\ Len(outdated_frameworks) # 0)
         => /\ update_pc = "returned"
            /\ Len(commands) = 1
            /\ commands[1] = <<outdated_frameworks[1].category_name,
                               outdated_frameworks[1].framework_name>>
            /\ printed[1] = ReportLines(outdated_frameworks)[1]
            /\ \A k \in 1..Len(outdated_frameworks) :
                   NameRank(outdated_frameworks[1].framework_name)
                     <= NameRank(outdated_frameworks[k].framework_name)
    /\ ~Ended => commands = <<>>

\* C3 witness: two outdated frameworks, listed by the registry in the other
\* order, and one command run
C3_Witness ==
    /\ update_pc = "returned"
    /\ Len(outdated_frameworks) = 2
    /\ commands = <<<<"ide", "atom">>>>

\* the frameworks the loop has fetched and compared so far
Checked ==
    {installed_frameworks[k].framework_name : k \in
       {m \in 1..(idx - 1) :
          /\ ~(installed_frameworks[m].category_name = "java")
          /\ ~(installed_frameworks[m].framework_name = "firefox-dev")
          /\ registry[installed_frameworks[m].framework_name].supports_update}}

\* the frameworks in the report
Reported ==
    {outdated_frameworks[k].framework_name : k \in 1..Len(outdated_frameworks)}

\* C4: a checked framework is in the report of outdated frameworks exactly
\* when its installed version and its latest version are both known and the
\* comparator finds the latest strictly higher; nothing else is in it.
C4_ReportedIffOutdated ==
    update_pc \in {"loop", "wait", "read", "compare", "exited", "returned"}
      => /\ Reported \subseteq Checked
         /\ \A n \in Checked :
              n \in Reported
                <=> /\ disk[InstallPath(n)] # None
                    /\ package_version[n] # None
                    /\ is_first_version_higher(package_version[n],
                                               disk[InstallPath(n)])

\* C4 witness: one checked framework reported, another one, whose installed
\* version is not known, not reported
C4_Witness ==
    /\ update_pc = "returned"
    /\ Len(outdated_frameworks) = 1
    /\ \E n \in Checked :
         /\ n \notin Reported
         /\ disk[InstallPath(n)] = None
         /\ package_version[n] # None

UpToDateMessage == <<[text |-> "All packages are up-to-date."]>>

\* C5: a run that finds nothing outdated prints the up-to-date message,
\* exits with status 0 and runs no command; and a run after such a run, that
\* reads the same versions, ends the same way.
C5_UpToDateIsIdempotent ==
    /\ (Ended /\ Len(outdated_frameworks) = 0)
         => /\ update_pc = "exited"
            /\ exit_code = 0
            /\ printed = UpToDateMessage
            /\ commands = <<>>
    /\ (/\ Ended
        /\ run >= 2
        /\ last_run.printed = UpToDateMessage
        /\ last_run.package_version = package_version)
         => /\ printed = last_run.printed
            /\ exit_code = last_run.exit_code
            /\ commands = last_run.commands

\* C5 witness: a second run, after an up-to-date run and with the same
\* versions read, that fetched, compared and exited
C5_Witness ==
    /\ update_pc = "exited"
    /\ run = 2
    /\ last_run.printed = UpToDateMessage
    /\ last_run.package_version = package_version
    /\ \E n \in Checked : package_version[n] # None /\ disk[InstallPath(n)] # None

(***************************************************************************)
(* Properties of the resolver.  The operators below describe the input     *)
(* vector on its own, without the resolver's locals.                       *)
(***************************************************************************)
\* index of the first token of a that does not start with a dash, 0 if none
FirstPositionalFrom(a, from) ==
    LET S == {k \in from..Len(a) : ~StartsWithDash(a[k])}
    IN  IF S = {} THEN 0 ELSE CHOOSE k \in S : \A m \in S : k <= m

\* index of the category token the vector names: its first positional token
\* when that is a category of the registry, 0 otherwise
CategoryIndex(a) ==
    LET f == FirstPositionalFrom(a, 1)
    IN  IF f # 0 /\ a[f] \in {"ide", "web", "java"} THEN f ELSE 0

\* index of the first positional token after the category, 0 if none
SubCommandIndex(a) ==
    IF CategoryIndex(a) = 0 THEN 0 ELSE FirstPositionalFrom(a, CategoryIndex(a) + 1)

RemoveFlag(tok) == tok = "--remove" \/ tok = "-r"

\* the token holds a path separator
ContainsSlash(tok) == \E k \in 1..Len(tok) : SubSeq(tok, k, k) = "/"
NotRemoveFlag(tok) == ~RemoveFlag(tok)

\* number of occurrences of tok in a
Count(a, tok) == Cardinality({k \in 1..Len(a) : a[k] = tok})

\* index of the first occurrence of tok in a, 0 if none
IndexOf(a, tok) ==
    LET S == {k \in 1..Len(a) : a[k] = tok}
    IN  IF S = {} THEN 0 ELSE CHOOSE k \in S : \A m \in S : k <= m

\* a without its element at index k
RemoveAt(a, k) == SubSeq(a, 1, k - 1) \o SubSeq(a, k + 1, Len(a))

\* the remove flags of a that stand before its category token (all of them
\* when it names no category), in order
FlagsBeforeCategory(a) ==
    IF CategoryIndex(a) = 0 THEN SelectSeq(a, RemoveFlag)
    ELSE SelectSeq(SubSeq(a, 1, CategoryIndex(a) - 1), RemoveFlag)

\* a without the remove flags that stand before its category token
WithoutFlagsBeforeCategory(a) ==
    IF CategoryIndex(a) = 0 THEN SelectSeq(a, NotRemoveFlag)
    ELSE SelectSeq(SubSeq(a, 1, CategoryIndex(a) - 1), NotRemoveFlag)
         \o SubSeq(a, CategoryIndex(a), Len(a))

\* the output without its last n tokens
DropLast(a, n) == SubSeq(a, 1, Len(a) - n)

Done == mangle_pc = "done"

\* C6: when the category the vector names (its first positional token) has a
\* default sub-command and no positional token follows it, the output holds
\* the default's name exactly once, directly after the category token.
C6_DefaultAppendedAfterCategory ==
    Done =>
      LET c == CategoryIndex(args) IN
        (c # 0 /\ SubCommandIndex(args) = 0 /\ DefaultFramework(args[c]) # None)
        => /\ Count(mangled, DefaultFramework(args[c])) = 1
           /\ IndexOf(mangled, args[c]) # 0
           /\ IndexOf(mangled, DefaultFramework(args[c]))
                = IndexOf(mangled, args[c]) + 1

\* C6 witness: a category with a default, an option before it and options
\* after it, resolved
C6_Witness ==
    /\ Done
    /\ CategoryIndex(args) > 1
    /\ CategoryIndex(args) < Len(args)
    /\ SubCommandIndex(args) = 0
    /\ DefaultFramework(args[CategoryIndex(args)]) # None
    /\ Len(mangled) = Len(args) + 1

\* the vector names a category with a default and a token in the
\* sub-command position that is no sub-command of that category
UnknownSubCommand(a) ==
    /\ CategoryIndex(a) # 0
    /\ SubCommandIndex(a) # 0
    /\ DefaultFramework(a[CategoryIndex(a)]) # None
    /\ a[SubCommandIndex(a)] \notin FrameworkNames(a[CategoryIndex(a)])

\* the vector names a category with a default and one of its sub-commands
KnownSubCommand(a) ==
    /\ CategoryIndex(a) # 0
    /\ SubCommandIndex(a) # 0
    /\ DefaultFramework(a[CategoryIndex(a)]) # None
    /\ a[SubCommandIndex(a)] \in FrameworkNames(a[CategoryIndex(a)])

\* C7: with a category that has a default, a token in the sub-command
\* position that is no known sub-command gets the default inserted (directly
\* after the category token, before that token) exactly when it contains a
\* path separator; a known sub-command gets no default inserted.
C7_DefaultInsertedIffPath ==
    Done =>
      LET c == CategoryIndex(args)
          t == SubCommandIndex(args)
          d == DefaultFramework(args[c])
      IN  /\ UnknownSubCommand(args) /\ ContainsSlash(args[t])
               => /\ Len(mangled) = Len(args) + 1
                  /\ Count(mangled, d) = Count(args, d) + 1
                  /\ mangled[IndexOf(mangled, args[c]) + 1] = d
                  /\ IndexOf(mangled, args[t]) > IndexOf(mangled, args[c]) + 1
          /\ UnknownSubCommand(args) /\ ~ContainsSlash(args[t])
               => /\ Len(mangled) = Len(args)
                  /\ Count(mangled, d) = Count(args, d)
          /\ KnownSubCommand(args)
               => /\ Len(mangled) = Len(args)
                  /\ Count(mangled, d) = Count(args, d)

\* C7 witness: a path in the sub-command position, an option between the
\* category and the path, and the default inserted
C7_Witness ==
    /\ Done
    /\ UnknownSubCommand(args)
    /\ ContainsSlash(args[SubCommandIndex(args)])
    /\ SubCommandIndex(args) > CategoryIndex(args) + 1
    /\ Len(mangled) = Len(args) + 1

\* the first positional token of the vector is no category
NoCategoryNamed(a) == FirstPositionalFrom(a, 1) # 0 /\ CategoryIndex(a) = 0

\* C8 as stated: when the first positional token is no known category, the
\* rest of the vector is passed through unchanged and in place, so the output
\* equals the input.  Stated for the vectors with no remove flag before that
\* token, so that only the tokens after it are in question.
C8_Original_OutputEqualsInput ==
    (/\ Done
     /\ NoCategoryNamed(args)
     /\ \A j \in 1..FirstPositionalFrom(args, 1) : NotRemoveFlag(args[j]))
      => mangled = args

\* C8 as amended: when the first positional token is no known category, no
\* default is inserted and every token other than a remove flag is passed
\* through in its original order; the remove flags of the vector, wherever
\* they stand, are moved to the end in their order.
C8_PassThroughExceptRemoveFlags ==
    (Done /\ NoCategoryNamed(args))
      => mangled = SelectSeq(args, NotRemoveFlag) \o SelectSeq(args, RemoveFlag)

\* C8 witness: no category named, and a remove flag that stood after the
\* unknown token and before another token was moved
C8_Witness ==
    /\ Done
    /\ NoCategoryNamed(args)
    /\ \E j \in 1..Len(args) :
         /\ j > FirstPositionalFrom(args, 1)
         /\ j < Len(args)
         /\ RemoveFlag(args[j])
         /\ NotRemoveFlag(args[Len(args)])
    /\ mangled # args

\* C9: the remove flags that stand before the category token (all of them
\* when no category is named) are the last tokens of the output, in their
\* order, after every other token and after an inserted default.
C9_DeferredFlagsLast ==
    Done =>
      LET D == FlagsBeforeCategory(args)
          n == Len(D)
      IN  /\ Len(mangled) >= n
          /\ SubSeq(mangled, Len(mangled) - n + 1, Len(mangled)) = D
          /\ CategoryIndex(args) # 0
               => /\ IndexOf(DropLast(mangled, n), args[CategoryIndex(args)]) # 0
                  /\ \A k \in 1..(IndexOf(DropLast(mangled, n),
                                          args[CategoryIndex(args)]) - 1) :
                         NotRemoveFlag(mangled[k])

\* C9 witness: two different remove flags before a category with a default,
\* the default inserted
C9_Witness ==
    /\ Done
    /\ CategoryIndex(args) # 0
    /\ Len(FlagsBeforeCategory(args)) = 2
    /\ FlagsBeforeCategory(args)[1] # FlagsBeforeCategory(args)[2]
    /\ Len(mangled) = Len(args) + 1

\* the vector names a category and holds a remove flag after it
FlagAfterCategory(a) ==
    /\ CategoryIndex(a) # 0
    /\ \E j \in (CategoryIndex(a) + 1)..Len(a) : RemoveFlag(a[j])

\* the output is the kept input with at most the default inserted directly
\* after the category token
SameOrderUpToDefault(kept, out, cat) ==
    \/ out = kept
    \/ /\ IndexOf(out, cat) # 0
       /\ Len(out) = Len(kept) + 1
       /\ out[IndexOf(out, cat) + 1] = DefaultFramework(cat)
       /\ RemoveAt(out, IndexOf(out, cat) + 1) = kept

\* C10 as stated: a remove flag after the category is not deferred and keeps
\* its place among the tokens of the input: the output, without the flags
\* deferred from before the category, is the input without them, with at
\* most the default inserted.
C10_Original_FlagKeepsPlace ==
    (Done /\ FlagAfterCategory(args))
      => SameOrderUpToDefault(WithoutFlagsBeforeCategory(args),
                              DropLast(mangled, Len(FlagsBeforeCategory(args))),
                              args[CategoryIndex(args)])

\* C10 as amended: a remove flag after the category is not deferred, and
\* keeps its order relative to every token the resolver does not move; the
\* one token moved across it is a known sub-command in the sub-command
\* position, which is placed directly after the category token, ahead of
\* the options (the flag among them) that stood between the two.
C10_FlagKeptAmongUnmovedTokens ==
    (Done /\ FlagAfterCategory(args))
      => LET kept == WithoutFlagsBeforeCategory(args)
             out == DropLast(mangled, Len(FlagsBeforeCategory(args)))
             cat == args[CategoryIndex(args)]
             c == CategoryIndex(kept)
             t == SubCommandIndex(kept)
         IN  IF t # 0 /\ kept[t] \in FrameworkNames(cat)
             THEN /\ Len(out) = Len(kept)
                  /\ out[c + 1] = kept[t]
                  /\ RemoveAt(out, c + 1) = RemoveAt(kept, t)
             ELSE SameOrderUpToDefault(kept, out, cat)

\* C10 witness: a remove flag between the category and a known sub-command,
\* which the resolver moved ahead of the flag
C10_Witness ==
    /\ Done
    /\ FlagAfterCategory(args)
    /\ KnownSubCommand(args)
    /\ \E j \in (CategoryIndex(args) + 1)..(SubCommandIndex(args) - 1) :
         RemoveFlag(args[j])
    /\ mangled # args

(***************************************************************************)
(* The comparator on its own: is_first_version_higher applied to a pair of *)
(* versions.  A version is written from a sequence of segments, a natural  *)
(* number or NotANumber for a segment that is not one; no segment at all   *)
(* is the absent version, None.                                            *)
(***************************************************************************)
MaxSegments == 3

NotANumber == 0 - 1

SegmentChoices == {NotANumber, 0, 9, 10}

VersionShapes == SeqsUpTo(SegmentChoices, MaxSegments)

\* str(n) for a natural number
RECURSIVE DecimalText(_)
DecimalText(n) ==
    IF n < 10 THEN SubSeq("0123456789", n + 1, n + 1)
    ELSE DecimalText(n \div 10) \o SubSeq("0123456789", (n % 10) + 1, (n % 10) + 1)

SegmentText(n) == IF n = NotANumber THEN "x" ELSE DecimalText(n)

\* the version string with these segments: '.'.join of the segments' texts
RECURSIVE JoinDots(_)
JoinDots(parts) ==
    IF Len(parts) = 1 THEN SegmentText(parts[1])
    ELSE JoinDots(SubSeq(parts, 1, Len(parts) - 1)) \o "."
         \o SegmentText(parts[Len(parts)])

VersionText(parts) == IF parts = <<>> THEN None ELSE JoinDots(parts)

CompareInit ==
    /\ ResolverIdle
    /\ UpdateIdle
    /\ MainIdle
    /\ DisplayIdle
    /\ cmp_parts1 \in VersionShapes
    /\ cmp_parts2 \in VersionShapes
    /\ cmp_version1 = VersionText(cmp_parts1)
    /\ cmp_version2 = VersionText(cmp_parts2)
    /\ cmp_pc = "call"
    /\ cmp_result = FALSE

\* lines 225-238 when no int() raises: the call returns a boolean
CompareReturns ==
    /\ cmp_pc = "call"
    /\ ~VersionRaises(cmp_version1, cmp_version2)
    /\ cmp_result' = is_first_version_higher(cmp_version1, cmp_version2)
    /\ cmp_pc' = "returned"
    /\ UNCHANGED <<cmp_parts1, cmp_parts2, cmp_version1, cmp_version2>>
    /\ UNCHANGED outsideCompare

\* lines 231-232 when an int() raises: ValueError leaves the function
CompareRaises ==
    /\ cmp_pc = "call"
    /\ VersionRaises(cmp_version1, cmp_version2)
    /\ cmp_pc' = "raised"
    /\ UNCHANGED <<cmp_parts1, cmp_parts2, cmp_version1, cmp_version2,
                   cmp_result>>
    /\ UNCHANGED outsideCompare

CompareNext == CompareReturns \/ CompareRaises

SpecCompare == CompareInit /\ [][CompareNext]_vars

(***************************************************************************)
(* Claims about the comparator.                                            *)
(***************************************************************************)
\* a present, well-formed version: at least one segment, all of them numbers
WellFormedShape(parts) ==
    /\ parts # <<>>
    /\ \A k \in 1..Len(parts) : parts[k] # NotANumber

\* a is strictly higher than b: at the first position where they differ a
\* has the greater number, or b has ended there (b is a strict prefix of a)
StrictlyHigher(a, b) ==
    \E k \in 1..Len(a) :
        /\ \A j \in 1..(k - 1) : j <= Len(b) /\ a[j] = b[j]
        /\ (k > Len(b) \/ a[k] > b[k])

\* C11: for two present, well-formed versions the comparator returns true
\* exactly when the first is strictly higher than the second, segments
\* compared as integers from the left, the first differing pair deciding and
\* a strict prefix being the lower one; so it is never true for (a, b) and
\* (b, a) both, and never true for (a, a).
C11_TrueIffStrictlyHigher ==
    (cmp_pc = "returned" /\ WellFormedShape(cmp_parts1)
                         /\ WellFormedShape(cmp_parts2)) =>
        /\ cmp_result = StrictlyHigher(cmp_parts1, cmp_parts2)
        /\ ~(cmp_result /\ is_first_version_higher(cmp_version2, cmp_version1))
        /\ (cmp_version1 = cmp_version2 => ~cmp_result)

\* "0.10" against "0.9": higher as numbers, lower as text
C11_Witness ==
    /\ cmp_pc = "returned"
    /\ cmp_parts1 = <<0, 10>>
    /\ cmp_parts2 = <<0, 9>>
    /\ cmp_result

\* C12: an absent version is lower than any known version and equal to an
\* absent one: the comparator returns true for (a, absent) with a known, false
\* for (absent, b) with b known, and false for (absent, absent).
C12_AbsentIsLowest ==
    cmp_pc = "returned" =>
        /\ (cmp_version1 # None /\ cmp_version2 = None) => cmp_result
        /\ (cmp_version1 = None /\ cmp_version2 # None) => ~cmp_result
        /\ (cmp_version1 = None /\ cmp_version2 = None) => ~cmp_result

(***************************************************************************)
(* CliUI._display: one call renders one request.  Each action below is one *)
(* turn of the while loop for one kind of request.                         *)
(***************************************************************************)
MaxAnswers == 3

MaxPulses == 3

\* what the user may type at a prompt
Answers == {"a", "N", "maybe"}

\* the requests handed to _display: one per class of umake.interactions the
\* method tests for, and an object of none of them
Requests ==
    { [NoRequest EXCEPT !.kind = "InputText", !.content = "Choose path:",
                        !.default_input = "/opt/x", !.choices = {"a", "N"}],
      [NoRequest EXCEPT !.kind = "LicenseAgreement", !.content = "License text",
                        !.input = "[I Accept (a)/I do not accept (N)]",
                        !.choices = {"a", "N"}],
      [NoRequest EXCEPT !.kind = "TextWithChoices", !.prompt = "Remove? [a/N]",
                        !.choices = {"a", "N"}],
      [NoRequest EXCEPT !.kind = "TextWithChoices", !.prompt = "Language? [a]",
                        !.choices = {"a"}],
      [NoRequest EXCEPT !.kind = "DisplayMessage", !.text = "Installing"],
      [NoRequest EXCEPT !.kind = "UnknownProgress"],
      [NoRequest EXCEPT !.kind = "Other"] }

DisplayInit ==
    /\ ResolverIdle
    /\ UpdateIdle
    /\ CompareIdle
    /\ MainIdle
    /\ contentType \in Requests
    /\ work = "running"
    /\ display_pc = "called"
    /\ display_result = None
    /\ shown = <<>>
    /\ logged = <<>>
    /\ delivered = <<>>
    /\ quit_status = 0 - 1
    /\ scheduled = 0
    /\ pulses = <<>>

InDisplay(kind) ==
    /\ display_pc = "called"
    /\ contentType.kind = kind

Shown(op, text, prefill) == [op |-> op, text |-> text, prefill |-> prefill]

\* the continuation called with the answer when an InputError ends the call
\* of _display
Resolve_Propagates(via, answer) ==
    /\ delivered' = Append(delivered, [via |-> via, answer |-> answer])
    /\ IF answer \in contentType.choices
       THEN /\ display_pc' = "returned"
            /\ logged' = logged
       ELSE /\ display_pc' = "raised"
            /\ logged' = logged

\* lines 61-62 and 84-87: the continuation is called with the answer inside
\* the try; when it returns the loop is left (break) and _display returns
\* None, when it raises InputError the error is logged and the loop turns
\* again (continue)
Resolve(via, answer) ==
    /\ delivered' = Append(delivered, [via |-> via, answer |-> answer])
    /\ IF answer \in contentType.choices
       THEN /\ display_pc' = "returned"
            /\ logged' = logged
       ELSE /\ display_pc' = "called"
            /\ logged' = Append(logged, "InputError")

\* lines 63-64: rlinput with the content as prompt and the default prefilled
DisplayInputText ==
    /\ InDisplay("InputText")
    /\ Len(delivered) < MaxAnswers
    /\ shown' = Append(shown, Shown("rlinput", contentType.content,
                                     contentType.default_input))
    /\ \E answer \in Answers : Resolve("run_callback", answer)
    /\ UNCHANGED <<contentType, work, display_result, quit_status, scheduled,
                   pulses>>
    /\ UNCHANGED outsideDisplay

\* lines 65-67: the license text is printed, then the answer is read
DisplayLicenseAgreement ==
    /\ InDisplay("LicenseAgreement")
    /\ Len(delivered) < MaxAnswers
    /\ shown' = shown \o <<Shown("print", contentType.content, ""),
                           Shown("input", contentType.input, "")>>
    /\ \E answer \in Answers : Resolve("choose", answer)
    /\ UNCHANGED <<contentType, work, display_result, quit_status, scheduled,
                   pulses>>
    /\ UNCHANGED outsideDisplay

\* lines 68-69
DisplayTextWithChoices ==
    /\ InDisplay("TextWithChoices")
    /\ Len(delivered) < MaxAnswers
    /\ shown' = Append(shown, Shown("input", contentType.prompt, ""))
    /\ \E answer \in Answers : Resolve("choose", answer)
    /\ UNCHANGED <<contentType, work, display_result, quit_status, scheduled,
                   pulses>>
    /\ UNCHANGED outsideDisplay

\* lines 70-71 and 84
DisplayDisplayMessage ==
    /\ InDisplay("DisplayMessage")
    /\ shown' = Append(shown, Shown("print", contentType.text, ""))
    /\ display_pc' = "returned"
    /\ UNCHANGED <<contentType, work, display_result, logged, delivered,
                   quit_status, scheduled, pulses>>
    /\ UNCHANGED outsideDisplay

\* MainLoop().quit(status_code=...): the main loop is asked to end the process
\* with this status
quit(status_code) == quit_status' = status_code

\* how contentType.bar(contentType._iterator()).next() goes: the iterator
\* yields while the work runs, raises StopIteration once it is over, and the
\* call raises AttributeError once the request has lost its indicator
PulseOutcome ==
    CASE work = "running" -> "ok"
      [] work = "exhausted" -> "StopIteration"
      [] work = "broken" -> "AttributeError"

\* lines 72-80 with UI.delayed_display after the with block instead of in it
DisplayUnknownProgress_AlwaysSchedules ==
    /\ InDisplay("UnknownProgress")
    /\ Len(pulses) < MaxPulses
    /\ contentType' = IF contentType.bar = None
                      THEN [contentType EXCEPT !.bar = "ProgressBar"]
                      ELSE contentType
    /\ pulses' = Append(pulses, PulseOutcome)
    /\ scheduled' = scheduled + 1
    /\ display_result' = "False"
    /\ display_pc' = "returned"
    /\ UNCHANGED <<work, shown, logged, delivered, quit_status>>
    /\ UNCHANGED outsideDisplay

\* lines 72-80: a bar is created when the request has none, the bar is pulsed
\* and, when the pulse raised nothing, the next display is scheduled;
\* StopIteration and AttributeError are swallowed; the call returns False
DisplayUnknownProgress ==
    /\ InDisplay("UnknownProgress")
    /\ Len(pulses) < MaxPulses
    /\ contentType' = IF contentType.bar = None
                      THEN [contentType EXCEPT !.bar = "ProgressBar"]
                      ELSE contentType
    /\ pulses' = Append(pulses, PulseOutcome)
    /\ scheduled' = IF PulseOutcome = "ok" THEN scheduled + 1 ELSE scheduled
    /\ display_result' = "False"
    /\ display_pc' = "returned"
    /\ UNCHANGED <<work, shown, logged, delivered, quit_status>>
    /\ UNCHANGED outsideDisplay

\* lines 81-84 with the quit left out
DisplayUnknownKind_Silent ==
    /\ InDisplay("Other")
    /\ logged' = Append(logged, "Unexcepted content type")
    /\ display_pc' = "returned"
    /\ UNCHANGED <<contentType, work, display_result, shown, delivered,
                   quit_status, scheduled, pulses>>
    /\ UNCHANGED outsideDisplay

\* lines 81-84: the else branch logs an error, asks the main loop to quit with
\* status 1 and leaves the loop
DisplayUnknownKind ==
    /\ InDisplay("Other")
    /\ logged' = Append(logged, "Unexcepted content type")
    /\ quit(1)
    /\ display_pc' = "returned"
    /\ UNCHANGED <<contentType, work, display_result, shown, delivered,
                   scheduled, pulses>>
    /\ UNCHANGED outsideDisplay

\* UI.delayed_display: the main loop calls _display again with the request
\* after the delay; the callback returned False before, so each scheduling
\* gives one call
DelayedDisplayFires ==
    /\ display_pc = "returned"
    /\ scheduled > 0
    /\ scheduled' = scheduled - 1
    /\ display_pc' = "called"
    /\ UNCHANGED <<contentType, work, display_result, shown, logged,
                   delivered, quit_status, pulses>>
    /\ UNCHANGED outsideDisplay

\* the work behind a progress request ends: its iterator is exhausted
WorkEnds ==
    /\ contentType.kind = "UnknownProgress"
    /\ work = "running"
    /\ work' = "exhausted"
    /\ UNCHANGED <<contentType, display_pc, display_result, shown, logged,
                   delivered, quit_status, scheduled, pulses>>
    /\ UNCHANGED outsideDisplay

\* a progress request loses its indicator: the next pulse raises
\* AttributeError
IndicatorLost ==
    /\ contentType.kind = "UnknownProgress"
    /\ work = "running"
    /\ work' = "broken"
    /\ UNCHANGED <<contentType, display_pc, display_result, shown, logged,
                   delivered, quit_status, scheduled, pulses>>
    /\ UNCHANGED outsideDisplay

\* lines 55-57: _return_main_screen asks the main loop to quit
ReturnMainScreen ==
    /\ display_pc = "returned"
    /\ quit_status = 0 - 1
    /\ \E status_code \in {0, 1} : quit(status_code)
    /\ UNCHANGED <<contentType, work, display_pc, display_result, shown,
                   logged, delivered, scheduled, pulses>>
    /\ UNCHANGED outsideDisplay

DisplayNext ==
    \/ DisplayInputText
    \/ DisplayLicenseAgreement
    \/ DisplayTextWithChoices
    \/ DisplayDisplayMessage
    \/ DisplayUnknownProgress
    \/ DisplayUnknownKind
    \/ DelayedDisplayFires
    \/ WorkEnds
    \/ IndicatorLost
    \/ ReturnMainScreen

SpecDisplay == DisplayInit /\ [][DisplayNext]_vars

(***************************************************************************)
(* Claims about the renderer.                                              *)
(***************************************************************************)
\* what one display of the request writes to the terminal
Rendering(req) ==
    IF req.kind = "LicenseAgreement"
    THEN <<Shown("print", req.content, ""), Shown("input", req.input, "")>>
    ELSE <<Shown("input", req.prompt, "")>>

\* the terminal saw n displays of the request and nothing else
ShownTimes(req, n) ==
    /\ Len(shown) = n * Len(Rendering(req))
    /\ \A i \in 1..Len(shown) :
         shown[i] = Rendering(req)[((i - 1) % Len(Rendering(req))) + 1]

AnswerAccepted(i) == delivered[i].answer \in contentType.choices

\* C13: when the continuation of a choice request or a license agreement
\* rejects the answer with an input-validation error, the error does not leave
\* the renderer: the same request is displayed again, once per answer, until
\* an answer is accepted; only the last answer is an accepted one, so the
\* request is resolved exactly once and nothing is displayed after it.
C13_SameRequestUntilAccepted ==
    contentType.kind \in {"TextWithChoices", "LicenseAgreement"} =>
        /\ display_pc \in {"called", "returned"}
        /\ ShownTimes(contentType, Len(delivered))
        /\ \A i \in 1..(Len(delivered) - 1) : ~AnswerAccepted(i)
        /\ display_pc = "returned" <=>
             (delivered # <<>> /\ AnswerAccepted(Len(delivered)))
        /\ Len(logged) = Cardinality({i \in 1..Len(delivered) : ~AnswerAccepted(i)})
        /\ \A i \in 1..Len(delivered) : delivered[i].via = "choose"

\* two rejected answers, then an accepted one
C13_Witness ==
    /\ contentType.kind = "LicenseAgreement"
    /\ display_pc = "returned"
    /\ Len(delivered) = 3
    /\ ~AnswerAccepted(1)
    /\ ~AnswerAccepted(2)
    /\ AnswerAccepted(3)
    /\ Len(shown) = 6

\* C14: a request of no known kind is never ignored silently: the renderer
\* asks the main loop to quit with status 1, hands nothing to any
\* continuation, prompts for nothing, and returns after one turn of its loop.
C14_UnknownKindQuitsWithOne ==
    contentType.kind = "Other" =>
        /\ delivered = <<>>
        /\ shown = <<>>
        /\ scheduled = 0
        /\ display_pc \in {"called", "returned"}
        /\ display_pc = "called" => (quit_status = 0 - 1 /\ logged = <<>>)
        /\ display_pc = "returned" => (quit_status = 1 /\ Len(logged) = 1)

C14_Witness ==
    /\ contentType.kind = "Other"
    /\ display_pc = "returned"
    /\ quit_status = 1

\* the pulses of the request so far all succeeded
AllPulsesOk == \A i \in 1..Len(pulses) : pulses[i] = "ok"

MainTokens == {"--help", "-h", "-r", "ide", "web", "idea", "typo"}

MainInit ==
    /\ ResolverIdle
    /\ UpdateIdle
    /\ CompareIdle
    /\ DisplayIdle
    /\ argv \in SeqsUpTo(MainTokens, MaxArgs)
    /\ arg_to_parse = <<>>
    /\ main_pc = "start"

\* lines 281-282, the test failing: "--help" is among the arguments and they
\* go to the parser as they are
MainKeepsArgs ==
    /\ main_pc = "start"
    /\ \E k \in 1..Len(argv) : argv[k] = "--help"
    /\ arg_to_parse' = argv
    /\ main_pc' = "parse"
    /\ UNCHANGED argv
    /\ UNCHANGED <<varsR, varsU, varsC, varsD>>

\* lines 281-284, the test passing: mangle_args_for_default_framework is
\* called with the arguments
MainCallsMangle ==
    /\ main_pc = "start"
    /\ ~\E k \in 1..Len(argv) : argv[k] = "--help"
    /\ args' = argv
    /\ mangle_pc' = "loop"
    /\ main_pc' = "mangling"
    /\ UNCHANGED <<argv, arg_to_parse>>
    /\ UNCHANGED <<pos, result_args, skip_all, pending_args, category_name,
                   framework_completed, args_to_append, mangled>>
    /\ UNCHANGED <<varsU, varsC, varsD>>

\* lines 284-285: the value mangle_args_for_default_framework returned is
\* what the parser gets
MainTakesMangled ==
    /\ main_pc = "mangling"
    /\ mangle_pc = "done"
    /\ arg_to_parse' = mangled
    /\ main_pc' = "parse"
    /\ UNCHANGED argv
    /\ UNCHANGED <<varsR, varsU, varsC, varsD>>

MainNext ==
    \/ MainKeepsArgs
    \/ MainCallsMangle
    \/ MangleNext
    \/ MainTakesMangled

SpecMain == MainInit /\ [][MainNext]_vars

(***************************************************************************)
(* Claims about main().                                                    *)
(***************************************************************************)
\* C15: when the argument vector contains --help or -h, the parser gets the
\* vector as it was given: the rewriting of the resolver is bypassed.
C15_HelpBypassesResolver ==
    (main_pc = "parse" /\ \E k \in 1..Len(argv) : argv[k] \in {"--help", "-h"})
        => arg_to_parse = argv

(***************************************************************************)
(* The update pass when a version read from the disk or offered by the     *)
(* download page has a segment that is not a number.                       *)
(***************************************************************************)
MalformedUserVersions == {"1.9", "1.x"}

MalformedRemoteVersions == {"1.10", "1.10b"}

MalformedUpdateInit ==
    UpdateInitOver(MalformedUserVersions, MalformedRemoteVersions)

SpecUpdateMalformed == MalformedUpdateInit /\ [][UpdateNext]_vars

\* a version with a segment that is not a number
NotNumeric(v) == v \in {"1.x", "1.10b"}

\* C16: a segment that is not a number, met while the update pass compares
\* versions, counts as "version unknown": the pass does not abort, the
\* component concerned is not reported outdated, and the pass ends only after
\* the remaining installed components were looked at.
C16_MalformedVersionNotFatal ==
    /\ update_pc # "crashed"
    /\ \A k \in 1..Len(outdated_frameworks) :
         /\ ~NotNumeric(outdated_frameworks[k].user_version)
         /\ ~NotNumeric(outdated_frameworks[k].latest_version)
    /\ Ended => idx > Len(installed_frameworks)

(***************************************************************************)
(* Claims about the resolver's tokens.                                     *)
(***************************************************************************)
\* the default sub-command of the category the vector names, None when it
\* names no category or the category has no default
NamedDefault(a) ==
    IF CategoryIndex(a) # 0 /\ a[CategoryIndex(a)] = "ide" THEN "idea" ELSE None

\* every token that may stand in the input or in the output
AnyToken == Tokens \cup {"idea"}

\* C18: the resolver drops, duplicates and alters no input token: its output
\* holds the input's tokens, each as often as the input does, and at most one
\* token more, which is the default sub-command of the recognized category;
\* the default is never inserted twice and never when no category is
\* recognized.
C18_TokensKeptPlusAtMostOneDefault ==
    Done =>
        \/ \A tok \in AnyToken : Count(mangled, tok) = Count(args, tok)
        \/ /\ NamedDefault(args) # None
           /\ \A tok \in AnyToken :
                Count(mangled, tok) =
                    Count(args, tok) + (IF tok = NamedDefault(args) THEN 1 ELSE 0)

\* a vector that names the default itself after a path gets one more of it
C18_Witness ==
    /\ Done
    /\ args = <<"-v", "ide", "/opt/x", "idea">>
    /\ Count(mangled, "idea") = 2
    /\ Len(mangled) = 5

(***************************************************************************)
(* Claims about which components the update pass fetches for.              *)
(***************************************************************************)
\* a component the pass must leave alone: of category java, or firefox-dev,
\* or without update support
LeftAlone(name) ==
    \/ name = "openjdk"
    \/ name = "firefox-dev"
    \/ ~registry[name].supports_update

\* C19: for an installed component of the exclusion set (category java, or
\* component firefox-dev) or without update support, no fetch is started, no
\* signal is created or waited for, no version is read, and the component
\* never stands in the outdated report.
C19_LeftAloneNeverFetched ==
    /\ \A d \in 1..Len(downloads) : ~LeftAlone(downloads[d].framework)
    /\ Len(events) = Len(downloads)
    /\ update_pc \in {"wait", "read", "compare"} => ~LeftAlone(CurrentName)
    /\ \A k \in 1..Len(outdated_frameworks) :
         ~LeftAlone(outdated_frameworks[k].framework_name)

\* a pass over atom (no update support), firefox-dev, openjdk and pycharm that
\* fetched for pycharm alone and reported it
C19_Witness ==
    /\ update_pc = "returned"
    /\ Len(installed_frameworks) = 4
    /\ ~registry["atom"].supports_update
    /\ Len(downloads) = 1
    /\ downloads[1].framework = "pycharm"
    /\ Reported = {"pycharm"}

(***************************************************************************)
(* The update pass with a download service that may call a report callback *)
(* again after the end report.                                             *)
(***************************************************************************)
MaxRepeats == 1

\* the report callback of a finished download is called once more with the
\* end report; the lambda of line 316 looks fetch_package_url up when called
DownloadReportsAgain ==
    \E d \in 1..Len(downloads) :
        /\ downloads[d].state = "done"
        /\ update_pc \in {"loop", "wait", "read", "compare"}
        /\ events[fetch_package_url].sets <= MaxRepeats
        /\ events' = report("all downloads finished")
        /\ UNCHANGED outsideUpdate
        /\ UNCHANGED <<registry, disk, remote, package_version, update_pc,
                       installed_frameworks, idx, outdated_frameworks,
                       fetch_package_url, user_version, latest_version,
                       downloads, printed, exit_code, commands, run, last_run>>

RepeatNext == UpdateNext \/ DownloadReportsAgain

SpecUpdateRepeat == FairUpdateInit /\ [][RepeatNext]_vars

\* C20: the fetches are strictly sequential and each has a signal of its own:
\* a fetch is started only when every earlier one has ended, at most one is
\* waited for, and the wait for a component is released only by the end of
\* that component's own fetch, never by a callback of another component's
\* fetch, late or repeated as it may be.
C20_WaitReleasedByOwnFetchOnly ==
    /\ Len(events) = Len(downloads)
    /\ \A d \in 1..(Len(downloads) - 1) : downloads[d].state = "done"
    /\ update_pc \in {"wait", "read", "compare"} =>
         /\ fetch_package_url = Len(events)
         /\ downloads[fetch_package_url].framework = CurrentName
    /\ update_pc \in {"read", "compare"} =>
         downloads[fetch_package_url].state = "done"

====
